---- MODULE Spec2Model ----
(***************************************************************************)
(* Session / stream management layer of the yt-dlp MCP HTTP server.        *)
(*                                                                         *)
(* The specifications of this module:                                      *)
(*   SpecStore      SimpleEventStore (src/src/http/errors.mts 131-200)     *)
(*   SpecSessions   one SimpleEventStore per session (routes.mts 63-83)    *)
(*   SpecAuth       validateApiKey / apiKeyMiddleware (errors.mts 61-96)   *)
(*   SpecMono       the monolithic server (src/src/server-http.mts         *)
(*                  612-1246)                                              *)
(*   SpecMonoStore  the monolithic server's SimpleEventStore (661-698)     *)
(*   Spec           the modular router and SessionManager                  *)
(*                  (src/src/http/routes.mts, src/src/http/session.mts)    *)
(*   SpecLive       Spec with a sweeper that keeps running                 *)
(* Strings are sequences of one-character strings, so that splitting and   *)
(* prefix stripping are computed, not assumed.                             *)
(***************************************************************************)
EXTENDS Integers, Sequences, FiniteSets, TLC

VARIABLES
  \* ---- SimpleEventStore ----
  events,      \* Map<StreamId, Array<{eventId, message}>>, a function on the present keys
  clock,       \* Date.now() as seen by the event store
  issued,      \* history: <<[stream, eventId, message]>> in the order storeEvent returned
  deleted,     \* history: messages whose stream was deleted after they were appended
  replay,      \* outcome of the latest replayEventsAfter call, NoReplay otherwise
  \* ---- one SimpleEventStore per session (routes.mts 65-79) ----
  entryStore,  \* per initialised session, the event store its registry entry holds
  stores,      \* per event store, its events map
  owned,       \* history: <<[session, stream, eventId, message]>> in the order stored
  act,         \* history: the latest operation on a session's event store
  \* ---- API key gate ----
  apiKey,      \* API_KEY (<<>> when unset or empty)
  reqPath,     \* req.path
  hasAuth,     \* whether the request has an Authorization header
  authHeader,  \* req.headers.authorization
  gate,        \* "pending", "next" (next() called) or "401"
  \* ---- monolithic server (server-http.mts) ----
  mnow,        \* Date.now()
  transports,  \* Map<string, TransportEntry>, a function on the present session ids
  mlog,        \* number of events each session's transport stored in its event store
  mreq,        \* the requests in flight: where each stands in app.all('/mcp')
  mminted,     \* number of session ids randomUUID() has produced
  mlast,       \* history: the latest request to reach the gates and what they decided
  win,         \* history: per session, the fixed window its requests are counted in
  mstore,      \* the monolithic SimpleEventStore.events, in Map insertion order
  muuid,       \* number of event ids the monolithic store has produced
  mreplay,     \* the latest call of the monolithic replayEventsAfter and its outcome
  \* ---- modular server (routes.mts, session.mts) ----
  now,         \* Date.now()
  registry,    \* SessionManager.transports, a function on the present session ids
  topen,       \* per session id, its transport: "none", "open" or "closed"
  elog,        \* per session id, the events its event store holds for the session
  reqs,        \* the requests in flight: where each stands in its handler
  minted,      \* number of session ids the transports' sessionIdGenerator produced
  sweep,       \* the run of cleanupExpired in progress, if any
  shut,        \* the SIGINT handler: "running", "closing", "closed" or "exited"
  last,        \* history: the request that reached a handler in the latest step of a
               \* handler, and what was decided for it
  terminated,  \* history: session ids whose DELETE request has completed
  swept,       \* history: session ids the sweeper removed
  done,        \* history: the response of the request a handler finished in the
               \* latest step of a handler
  halt         \* the times of the shutdown: signal, hard-kill timer armed, exit

storeVars == <<events, clock, issued, deleted, replay>>
sessVars  == <<entryStore, stores, owned, act>>
authVars  == <<apiKey, reqPath, hasAuth, authHeader, gate>>
mstoreVars == <<mstore, muuid, mreplay>>
monoVars  == <<mnow, transports, mlog, mreq, mminted, mlast, win,
              mstoreVars>>
httpVars  == <<now, registry, topen, elog, reqs, minted, sweep, shut, last,
               terminated, swept, done, halt>>
vars      == <<storeVars, sessVars, authVars, monoVars, httpVars>>

(***************************************************************************)
(* Bounds                                                                  *)
(***************************************************************************)
\* scaled stand-in for MAX_EVENTS_PER_SESSION = 1000 (errors.mts line 131)
MaxEvents == 2
\* number of storeEvent calls explored
MaxAppends == 3
MaxOwned == 3
\* largest value of the event store's clock
MaxClock == 1
\* longest credential / header body explored
MaxTokenLen == 2
\* largest value of the monolithic server's clock
MaxTime == 3
\* requests of the monolithic server in flight at once
MaxInFlight == 1
\* sessions the monolithic server creates
MaxSessions == 2
\* events a transport stores per session
MaxLog == 1
\* number of storeEvent calls on the monolithic store explored
MaxMonoAppends == 3
\* largest value of the modular server's clock
MaxNow == 2
\* requests of the modular server in flight at once
MaxReqs == 2
\* sessions the modular server initializes
MaxSess == 1
\* events a session's event store holds in the modular model
MaxHeld == 1
\* scaled stand-in for SESSION_TIMEOUT (at least 60000 ms), in clock ticks
TimeoutTicks == 1
\* scaled stand-in for the 5000 ms grace of closeAll, in clock ticks
GraceTicks == 1
\* scaled stand-in for the 10000 ms hard-kill timer, in clock ticks
HardKillTicks == 2
\* scaled stand-in for RATE_LIMIT (default 60 requests)
RateCeiling == 2
\* scaled stand-in for the 60000 ms window, in clock ticks
WindowTicks == 2

(***************************************************************************)
(* Strings                                                                 *)
(***************************************************************************)
RECURSIVE SeqsUpTo(_, _)
SeqsUpTo(A, n) ==
  IF n = 0 THEN {<<>>}
  ELSE LET shorter == SeqsUpTo(A, n - 1)
       IN  shorter \cup {Append(s, a) : s \in {t \in shorter : Len(t) = n - 1}, a \in A}

\* String.prototype.split(d): the parts of s between the occurrences of d
RECURSIVE SplitFrom(_, _, _, _)
SplitFrom(s, d, i, cur) ==
  IF i > Len(s) THEN <<cur>>
  ELSE IF s[i] = d THEN <<cur>> \o SplitFrom(s, d, i + 1, <<>>)
  ELSE SplitFrom(s, d, i + 1, Append(cur, s[i]))

Split(s, d) == SplitFrom(s, d, 1, <<>>)

\* Array.prototype.findIndex, 1-based; 0 when no element matches (-1 in the code)
RECURSIVE FindIndexFrom(_, _, _)
FindIndexFrom(list, id, i) ==
  IF i > Len(list) THEN 0
  ELSE IF list[i].eventId = id THEN i
  ELSE FindIndexFrom(list, id, i + 1)

FindIndex(list, id) == FindIndexFrom(list, id, 1)

(***************************************************************************)
(* SimpleEventStore                                                        *)
(***************************************************************************)
MAX_EVENTS_PER_SESSION == MaxEvents

StreamIds == { <<"a">>, <<"a", "_", "b">>, <<"_", "g">> }

\* Math.random().toString(36).substring(2, 10): base-36 digits, never "_"
RandomTokens == { <<"x">>, <<"y">> }

\* an id no storeEvent call returned, of a stream that was never stored
ForeignIds == { <<"z", "_", "0", "_", "x">> }

NoReplay == [called |-> FALSE, arg |-> <<>>, sent |-> <<>>, ret |-> <<>>]

\* `${streamId}_${Date.now()}_${Math.random()...}`
generateEventId(streamId, ms, rnd) ==
  streamId \o <<"_">> \o <<ToString(ms)>> \o <<"_">> \o rnd

\* eventId.split('_')[0]
getStreamIdFromEventId(eventId) ==
  LET parts == Split(eventId, "_")
  IN  IF Len(parts) > 0 THEN parts[1] ELSE <<>>

Has(map, k) == k \in DOMAIN map

\* sessionEvents.splice(0, length - MAX) when length > MAX: the tail is kept
TrimKeepOldest(list) ==
  IF Len(list) > MAX_EVENTS_PER_SESSION
  THEN SubSeq(list, 1, MAX_EVENTS_PER_SESSION)
  ELSE list

Trim(list) ==
  IF Len(list) > MAX_EVENTS_PER_SESSION
  THEN SubSeq(list, Len(list) - MAX_EVENTS_PER_SESSION + 1, Len(list))
  ELSE list

Messages(list) == { list[i].message : i \in 1..Len(list) }

MessageSeq(list) == [i \in 1..Len(list) |-> list[i].message]

\* storeEvent on the events map store, with the id generateEventId produced
storeEvent(store, streamId, eventId, message) ==
  LET before == IF Has(store, streamId) THEN store[streamId] ELSE <<>>
      pushed == Append(before, [eventId |-> eventId, message |-> message])
      kept   == Trim(pushed)
  IN  [s \in DOMAIN store \cup {streamId} |-> IF s = streamId THEN kept ELSE store[s]]

\* deleteSession on the events map store: this.events.delete(streamId)
deleteSession(store, streamId) == [s \in DOMAIN store \ {streamId} |-> store[s]]

\* what replayEventsAfter computes on the events map store: what it hands to send,
\* and what it returns
replayEventsAfter(store, lastEventId) ==
  IF lastEventId = <<>> THEN [sent |-> <<>>, ret |-> <<>>]
  ELSE LET streamId == getStreamIdFromEventId(lastEventId)
       IN  IF streamId = <<>> \/ ~Has(store, streamId)
           THEN [sent |-> <<>>, ret |-> <<>>]
           ELSE LET streamEvents == store[streamId]
                    index == FindIndex(streamEvents, lastEventId)
                IN  IF index >= 1
                    THEN [sent |-> MessageSeq(SubSeq(streamEvents, index + 1,
                                                     Len(streamEvents))),
                          ret |-> streamId]
                    ELSE [sent |-> <<>>, ret |-> streamId]

StoreEvent(streamId, rnd) ==
  /\ Len(issued) < MaxAppends
  /\ LET message   == Len(issued) + 1
         eventId   == generateEventId(streamId, clock, rnd)
     IN  /\ events' = storeEvent(events, streamId, eventId, message)
         /\ issued' = Append(issued, [stream |-> streamId, eventId |-> eventId,
                                      message |-> message])
  /\ replay' = NoReplay
  /\ UNCHANGED <<clock, deleted, authVars, sessVars, monoVars, httpVars>>

DeleteSession(streamId) ==
  /\ events' = deleteSession(events, streamId)
  /\ deleted' = deleted \cup { issued[k].message :
                                k \in {j \in 1..Len(issued) : issued[j].stream = streamId} }
  /\ replay' = NoReplay
  /\ UNCHANGED <<clock, issued, authVars, sessVars, monoVars, httpVars>>

\* replayEventsAfter on the store of SpecStore
ReplayResult(lastEventId) == replayEventsAfter(events, lastEventId)

ReplayInputs ==
  {<<>>} \cup ForeignIds \cup { issued[k].eventId : k \in 1..Len(issued) }

ReplayEventsAfter(lastEventId) ==
  /\ LET r == ReplayResult(lastEventId)
     IN  replay' = [called |-> TRUE, arg |-> lastEventId, sent |-> r.sent, ret |-> r.ret]
  /\ UNCHANGED <<events, clock, issued, deleted, authVars, sessVars, monoVars, httpVars>>

StoreTick ==
  /\ clock < MaxClock
  /\ clock' = clock + 1
  /\ replay' = NoReplay
  /\ UNCHANGED <<events, issued, deleted, authVars, sessVars, monoVars, httpVars>>

StoreInit ==
  /\ events = << >>
  /\ clock = 0
  /\ issued = <<>>
  /\ deleted = {}
  /\ replay = NoReplay

StoreNext ==
  \/ \E s \in StreamIds, rnd \in RandomTokens : StoreEvent(s, rnd)
  \/ \E s \in StreamIds : DeleteSession(s)
  \/ \E id \in ReplayInputs : ReplayEventsAfter(id)
  \/ StoreTick

(***************************************************************************)
(* Event store: histories the claims are stated over                       *)
(***************************************************************************)
\* messages appended to streamId since it was last deleted, in append order
LiveHistory(streamId) ==
  LET mine == SelectSeq(issued, LAMBDA e : e.stream = streamId /\ e.message \notin deleted)
  IN  [i \in 1..Len(mine) |-> mine[i].message]

Retained(streamId) == IF Has(events, streamId) THEN MessageSeq(events[streamId]) ELSE <<>>

SeqRange(q) == { q[i] : i \in 1..Len(q) }

LastN(q, n) == SubSeq(q, Len(q) - n + 1, Len(q))

Min(a, b) == IF a < b THEN a ELSE b

\* messages the capacity trim dropped from streamId
Evicted(streamId) == SeqRange(LiveHistory(streamId)) \ SeqRange(Retained(streamId))

\* the k-th storeEvent's event is still in its stream
StillRetained(k) == issued[k].message \in SeqRange(Retained(issued[k].stream))

\* messages appended to the k-th call's stream after the k-th call and still retained
LaterRetained(k) ==
  LET later == SelectSeq(SubSeq(issued, k + 1, Len(issued)),
                         LAMBDA e : /\ e.stream = issued[k].stream
                                    /\ e.message \in SeqRange(Retained(e.stream)))
  IN  [i \in 1..Len(later) |-> later[i].message]

\* no other storeEvent call returned the id the k-th call returned
IdIssuedOnce(k) == \A j \in 1..Len(issued) : issued[j].eventId = issued[k].eventId => j = k

\* C1: replayEventsAfter(id), for an id the k-th storeEvent returned and whose event
\* is still retained, hands send exactly the events appended to that stream after
\* the k-th and still retained, in append order, and no event of another stream.
\* (Stated for ids that name one event only; ids returned twice are C20's subject.)
C1_ReplayAfterIssuedId ==
  replay.called =>
    \A k \in 1..Len(issued) :
      (issued[k].eventId = replay.arg /\ StillRetained(k) /\ IdIssuedOnce(k)) =>
        replay.sent = LaterRetained(k)

\* C2: every stream holds at most MAX_EVENTS_PER_SESSION events, the retained ones
\* are the most recently appended in append order (the oldest are evicted first),
\* and no replay delivers an evicted event.
C2_BoundedNewestRetained ==
  /\ \A s \in DOMAIN events :
       /\ Len(events[s]) <= MAX_EVENTS_PER_SESSION
       /\ Retained(s) = LastN(LiveHistory(s),
                              Min(MAX_EVENTS_PER_SESSION, Len(LiveHistory(s))))
  /\ replay.called =>
       \A s \in StreamIds : SeqRange(replay.sent) \cap (Evicted(s) \cup deleted) = {}

\* a stream has lost its oldest event to the trim and a replay on it delivered a
\* later one
C2_Witness ==
  /\ replay.called
  /\ replay.sent # <<>>
  /\ Has(events, replay.ret)
  /\ Evicted(replay.ret) # {}

\* C26: for every stream id, also one that contains "_" or begins with it, the
\* stream id recovered from an event id generated for it is that stream id, so
\* replayEventsAfter on a retained event's id finds the stream and returns it
C26_StreamIdRoundTrip ==
  /\ \A k \in 1..Len(issued) :
       getStreamIdFromEventId(issued[k].eventId) = issued[k].stream
  /\ replay.called =>
       \A k \in 1..Len(issued) :
         (issued[k].eventId = replay.arg /\ StillRetained(k)) =>
           replay.ret = issued[k].stream

\* the round trip on stream ids without the delimiter
DelimiterFreeRoundTrip ==
  \A k \in 1..Len(issued) :
    (\A i \in 1..Len(issued[k].stream) : issued[k].stream[i] # "_") =>
      getStreamIdFromEventId(issued[k].eventId) = issued[k].stream

\* UTF-16 code units of the characters ids are made of (digits < "_" < letters)
CharCode(c) ==
  CASE c = "0" -> 48 [] c = "1" -> 49 [] c = "2" -> 50 [] c = "_" -> 95
    [] c = "a" -> 97 [] c = "b" -> 98 [] c = "g" -> 103
    [] c = "x" -> 120 [] c = "y" -> 121 [] c = "z" -> 122
    [] OTHER -> 0

\* a < b as strings (code unit by code unit; a proper prefix is smaller)
RECURSIVE StrLess(_, _)
StrLess(a, b) ==
  IF b = <<>> THEN FALSE
  ELSE IF a = <<>> THEN TRUE
  ELSE IF CharCode(Head(a)) # CharCode(Head(b)) THEN CharCode(Head(a)) < CharCode(Head(b))
  ELSE StrLess(Tail(a), Tail(b))

\* C20: the ids storeEvent returns for one stream are pairwise distinct and ordered
\* as the appends were: an event appended later has a greater id, also when the
\* appends fall into the same millisecond or interleave with other streams' appends
C20_IdsDistinctAndOrdered ==
  \A j \in 1..Len(issued), k \in 1..Len(issued) :
    (j < k /\ issued[j].stream = issued[k].stream)
      => StrLess(issued[j].eventId, issued[k].eventId)

\* C11: replayEventsAfter(id), for an id storeEvent returned for a stream that still
\* exists but whose event the capacity trim has evicted, hands send the events the
\* stream still retains.  (Stated for ids that name one event and whose stream id
\* the store recovers; the other ids are the subject of C20 and C26.)
C11_EvictedIdReplaysRetained ==
  replay.called =>
    \A k \in 1..Len(issued) :
      (/\ issued[k].eventId = replay.arg
       /\ IdIssuedOnce(k)
       /\ getStreamIdFromEventId(replay.arg) = issued[k].stream
       /\ Has(events, issued[k].stream)
       /\ issued[k].message \in Evicted(issued[k].stream))
        => replay.sent = Retained(issued[k].stream)

\* the modular store alone: replayEventsAfter with an empty id, or with an id whose
\* stream the store does not hold, never invokes send, changes nothing in the store
\* and returns the empty stream id
ModularUnmatchedIdReplaysNothing ==
  [][(/\ replay'.called
      /\ \/ replay'.arg = <<>>
         \/ ~Has(events, getStreamIdFromEventId(replay'.arg)))
     => /\ replay'.sent = <<>>
        /\ replay'.ret = <<>>
        /\ UNCHANGED <<events, issued, deleted, clock>>]_vars

(***************************************************************************)
(* API key gate                                                            *)
(***************************************************************************)
KeyChars == {"k", "x"}

Whitespace == {" "}

Lower(c) ==
  CASE c = "B" -> "b" [] c = "E" -> "e" [] c = "A" -> "a" [] c = "R" -> "r"
    [] OTHER -> c

LowerStr(s) == [i \in 1..Len(s) |-> Lower(s[i])]

BearerWord == <<"b", "e", "a", "r", "e", "r">>

\* how the Authorization header starts
Schemes ==
  { <<>>,
    <<"B", "e", "a", "r", "e", "r", " ">>,
    <<"b", "e", "a", "r", "e", "r", " ">>,
    <<"B", "E", "A", "R", "E", "R", " ", " ">>,
    <<"B", "e", "a", "r", "e", "r">>,
    <<"B", "a", "s", "i", "c", " ">> }

AuthHeaders == { s \o b : s \in Schemes, b \in SeqsUpTo(KeyChars \cup Whitespace, MaxTokenLen) }

ApiKeys == SeqsUpTo(KeyChars, MaxTokenLen)

Paths == {"/health", "/mcp"}

\* number of whitespace characters of s from position i on
RECURSIVE WhitespaceRun(_, _)
WhitespaceRun(s, i) ==
  IF i <= Len(s) /\ s[i] \in Whitespace THEN 1 + WhitespaceRun(s, i + 1) ELSE 0

\* authHeader.replace(/^Bearer\s+/i, '')
StripBearer(h) ==
  IF /\ Len(h) >= Len(BearerWord) + 1
     /\ LowerStr(SubSeq(h, 1, Len(BearerWord))) = BearerWord
     /\ WhitespaceRun(h, Len(BearerWord) + 1) >= 1
  THEN SubSeq(h, Len(BearerWord) + WhitespaceRun(h, Len(BearerWord) + 1) + 1, Len(h))
  ELSE h

\* a validateApiKey that forgets the length / equality test once a header is present
validateApiKeyAnyHeader(key, present, h) ==
  IF key = <<>> THEN TRUE
  ELSE IF ~present \/ h = <<>> THEN FALSE
  ELSE TRUE

validateApiKey(key, present, h) ==
  IF key = <<>> THEN TRUE
  ELSE IF ~present \/ h = <<>> THEN FALSE
  ELSE LET token == StripBearer(h)
       IN  IF Len(token) # Len(key) THEN FALSE
           ELSE token = key     \* timingSafeEqual on equally long buffers

ApiKeyMiddleware ==
  /\ gate = "pending"
  /\ gate' = IF reqPath = "/health" THEN "next"
             ELSE IF ~validateApiKey(apiKey, hasAuth, authHeader) THEN "401"
             ELSE "next"
  /\ UNCHANGED <<apiKey, reqPath, hasAuth, authHeader, storeVars, sessVars, monoVars,
                 httpVars>>

AuthInit ==
  /\ apiKey \in ApiKeys
  /\ reqPath \in Paths
  /\ hasAuth \in BOOLEAN
  /\ authHeader \in AuthHeaders
  /\ hasAuth = FALSE => authHeader = <<>>
  /\ gate = "pending"

\* h is "Bearer" (any case), at least one whitespace character, then token
IsBearerOf(h, token) ==
  /\ token # <<>>
  /\ token[1] \notin Whitespace
  /\ \E n \in 1..Len(h) :
       /\ Len(h) = Len(BearerWord) + n + Len(token)
       /\ LowerStr(SubSeq(h, 1, Len(BearerWord))) = BearerWord
       /\ \A i \in 1..n : h[Len(BearerWord) + i] \in Whitespace
       /\ SubSeq(h, Len(BearerWord) + n + 1, Len(h)) = token

\* h starts with "Bearer" (any case) and a whitespace character
HasBearerPrefix(h) ==
  /\ Len(h) > Len(BearerWord)
  /\ LowerStr(SubSeq(h, 1, Len(BearerWord))) = BearerWord
  /\ h[Len(BearerWord) + 1] \in Whitespace

AuthIdle ==
  /\ apiKey = <<>>
  /\ reqPath = "/mcp"
  /\ hasAuth = FALSE
  /\ authHeader = <<>>
  /\ gate = "pending"

StoreIdle == StoreInit

(***************************************************************************)
(* Monolithic server: app.all('/mcp') behind the API key middleware        *)
(***************************************************************************)
RATE_LIMIT == RateCeiling

\* session ids are numbered in the order randomUUID() produced them; 0 stands for
\* an absent (or empty, equally falsy) sessionId
MonoIds == 1..MaxSessions

NoId == 0

\* randomUUID(): the n-th id produced differs from all earlier ones
MintedId(n) == n

\* req.query.sessionId: absent, or any id (one not yet produced is an unknown id)
QuerySessionIds == {NoId} \cup MonoIds

MonoApiKey == <<"k">>

\* Authorization headers sent to the monolithic server: [present, value]
MonoHeaders ==
  { [present |-> FALSE, value |-> <<>>],
    [present |-> TRUE,  value |-> <<"B", "e", "a", "r", "e", "r", " ", "k">>],
    [present |-> TRUE,  value |-> <<"B", "e", "a", "r", "e", "r", " ", "x">>] }

Slots == 1..MaxInFlight

IdleReq == [pc |-> "idle", sid |-> NoId]

NoLast == [kind |-> "none", sid |-> NoId, status |-> "none",
           elapsed |-> FALSE, allowedBefore |-> 0, recent |-> 0]

NoWindow == [start |-> -1, allowed |-> 0, at |-> <<>>]

SetEntry(map, sid, entry) ==
  [s \in DOMAIN map \cup {sid} |-> IF s = sid THEN entry ELSE map[s]]

\* a checkRateLimit that stamps lastRequest before it decides
checkRateLimitStampFirst(sessionId) ==
  IF ~Has(transports, sessionId) THEN [ok |-> TRUE, map |-> transports]
  ELSE LET entry == transports[sessionId]
           timeSinceLastRequest == mnow - entry.lastRequest
           stamped == [entry EXCEPT !.lastRequest = mnow]
       IN  IF timeSinceLastRequest > WindowTicks
           THEN [ok |-> TRUE,
                 map |-> SetEntry(transports, sessionId,
                                  [stamped EXCEPT !.requestCount = 1])]
           ELSE IF entry.requestCount >= RATE_LIMIT
           THEN [ok |-> FALSE, map |-> SetEntry(transports, sessionId, stamped)]
           ELSE [ok |-> TRUE,
                 map |-> SetEntry(transports, sessionId,
                                  [stamped EXCEPT !.requestCount = @ + 1])]

\* a checkRateLimit whose ceiling is used up by any session's counter
checkRateLimitShared(sessionId) ==
  IF ~Has(transports, sessionId) THEN [ok |-> TRUE, map |-> transports]
  ELSE LET entry == transports[sessionId]
           timeSinceLastRequest == mnow - entry.lastRequest
       IN  IF timeSinceLastRequest > WindowTicks
           THEN [ok |-> TRUE,
                 map |-> SetEntry(transports, sessionId,
                                  [entry EXCEPT !.requestCount = 1, !.lastRequest = mnow])]
           ELSE IF \E s \in DOMAIN transports : transports[s].requestCount >= RATE_LIMIT
           THEN [ok |-> FALSE, map |-> transports]
           ELSE [ok |-> TRUE,
                 map |-> SetEntry(transports, sessionId,
                                  [entry EXCEPT !.requestCount = @ + 1,
                                                !.lastRequest = mnow])]

\* checkRateLimit(sessionId): its result and the registry it leaves
checkRateLimit(sessionId) ==
  IF ~Has(transports, sessionId) THEN [ok |-> TRUE, map |-> transports]
  ELSE LET entry == transports[sessionId]
           timeSinceLastRequest == mnow - entry.lastRequest
       IN  IF timeSinceLastRequest > WindowTicks
           THEN [ok |-> TRUE,
                 map |-> SetEntry(transports, sessionId,
                                  [entry EXCEPT !.requestCount = 1, !.lastRequest = mnow])]
           ELSE IF entry.requestCount >= RATE_LIMIT
           THEN [ok |-> FALSE, map |-> transports]
           ELSE [ok |-> TRUE,
                 map |-> SetEntry(transports, sessionId,
                                  [entry EXCEPT !.requestCount = @ + 1,
                                                !.lastRequest = mnow])]

\* the fixed window a request of sessionId arriving now is counted in
WindowAt(sessionId) ==
  LET w == win[sessionId]
  IN  IF w.start = -1 \/ mnow - w.start > WindowTicks
      THEN [start |-> mnow, allowed |-> 0, at |-> w.at]
      ELSE w

\* how many of the given request times lie within one window length before now
AllowedWithin(times) ==
  Cardinality({i \in 1..Len(times) : mnow - times[i] <= WindowTicks})

WindowElapsed(sessionId) ==
  win[sessionId].start # -1 /\ mnow - win[sessionId].start > WindowTicks

\* a request reaches the server: API key middleware, rate limit, session lookup,
\* up to the handler's first await
MonoArrive(r, sessionId, header) ==
  /\ mreq[r].pc = "idle"
  /\ IF ~validateApiKey(apiKey, header.present, header.value)
     THEN /\ mlast' = [NoLast EXCEPT !.kind = "gate", !.sid = sessionId, !.status = "401"]
          /\ UNCHANGED <<transports, mreq, mminted, win>>
     ELSE LET known == sessionId # NoId /\ Has(transports, sessionId)
              limit == IF sessionId # NoId THEN checkRateLimit(sessionId)
                       ELSE [ok |-> TRUE, map |-> transports]
              w     == IF known THEN WindowAt(sessionId) ELSE NoWindow
              seen  == [NoLast EXCEPT
                          !.kind = IF known THEN "limited" ELSE "gate",
                          !.sid = sessionId,
                          !.elapsed = known /\ WindowElapsed(sessionId),
                          !.allowedBefore = w.allowed,
                          !.recent = AllowedWithin(w.at)]
          IN  IF ~limit.ok
              THEN /\ mlast' = [seen EXCEPT !.status = "429"]
                   /\ transports' = limit.map
                   /\ win' = [win EXCEPT ![sessionId] = w]
                   /\ UNCHANGED <<mreq, mminted>>
              ELSE IF known
              THEN /\ mlast' = [seen EXCEPT !.status = "forwarded"]
                   /\ transports' = limit.map
                   /\ win' = [win EXCEPT ![sessionId] =
                                      [w EXCEPT !.allowed = @ + 1, !.at = Append(@, mnow)]]
                   /\ mreq' = [mreq EXCEPT ![r] = [pc |-> "handle", sid |-> sessionId]]
                   /\ UNCHANGED mminted
              ELSE /\ mminted < MaxSessions
                   /\ mlast' = [seen EXCEPT !.status = "creating"]
                   /\ transports' = limit.map
                   /\ mminted' = mminted + 1
                   /\ mreq' = [mreq EXCEPT ![r] = [pc |-> "connect",
                                                   sid |-> MintedId(mminted + 1)]]
                   /\ UNCHANGED win
  /\ UNCHANGED <<mnow, mlog, apiKey, reqPath, hasAuth, authHeader, gate, storeVars,
                 sessVars, httpVars, mstoreVars>>

\* await server.connect(transport) returns: the entry is registered
MonoConnected(r) ==
  /\ mreq[r].pc = "connect"
  /\ transports' = SetEntry(transports, mreq[r].sid,
                            [created |-> mnow, requestCount |-> 0, lastRequest |-> mnow])
  /\ mreq' = [mreq EXCEPT ![r].pc = "handle"]
  /\ UNCHANGED <<mnow, mlog, mminted, mlast, win, authVars, sessVars, storeVars, httpVars, mstoreVars>>

\* await server.connect(transport) throws: the outer catch answers 500
MonoConnectFailed(r) ==
  /\ mreq[r].pc = "connect"
  /\ mreq' = [mreq EXCEPT ![r] = IdleReq]
  /\ UNCHANGED <<mnow, transports, mlog, mminted, mlast, win, authVars, sessVars, storeVars, httpVars, mstoreVars>>

\* the transport, while it handles a request, stores an outbound event
MonoTransportStores(r) ==
  /\ mreq[r].pc = "handle"
  /\ mlog[mreq[r].sid] < MaxLog
  /\ mlog' = [mlog EXCEPT ![mreq[r].sid] = @ + 1]
  /\ UNCHANGED <<mnow, transports, mreq, mminted, mlast, win, authVars, sessVars, storeVars, httpVars, mstoreVars>>

\* await entry.transport.handleRequest(...) returns, or throws and is answered 500
MonoHandled(r) ==
  /\ mreq[r].pc = "handle"
  /\ mreq' = [mreq EXCEPT ![r] = IdleReq]
  /\ UNCHANGED <<mnow, transports, mlog, mminted, mlast, win, authVars, sessVars, storeVars, httpVars, mstoreVars>>

MonoTick ==
  /\ mnow < MaxTime
  /\ mnow' = mnow + 1
  /\ UNCHANGED <<transports, mlog, mreq, mminted, mlast, win, authVars, sessVars, storeVars, httpVars, mstoreVars>>

\* C3: once RATE_LIMIT requests of a session were allowed within one window, the
\* next request of that session in the window is answered 429 and not forwarded;
\* once the window has elapsed, the session's next request is allowed.
C3_CeilingThenReset ==
  mlast.kind = "limited" =>
    /\ (mlast.allowedBefore >= RATE_LIMIT /\ ~mlast.elapsed) => mlast.status = "429"
    /\ mlast.elapsed => mlast.status = "forwarded"

\* the step is a request being answered 401 or 429 by the gates
GateRejects == mlast' # mlast /\ mlast'.status \in {"401", "429"}

\* C10: auth comes before the rate limiter and the router: a request answered 401
\* changes no rate-limit counter, and a request answered 401 or 429 is not forwarded
\* to a transport, creates no session and leaves the registry (counters and
\* timestamps included) and every event log unchanged.
C10_RejectedRequestChangesNothing ==
  [][GateRejects => UNCHANGED <<transports, mlog, mreq, mminted>>]_vars

\* a request without a valid key was answered 401 although its session had already
\* used up its ceiling: the rate limiter was not consulted
C10_Witness ==
  /\ mlast.status = "401"
  /\ mlast.sid # NoId
  /\ Has(transports, mlast.sid)
  /\ transports[mlast.sid].requestCount >= RATE_LIMIT

\* the step is a request of session a reaching the rate limiter
LimiterDecides(a) == mlast' # mlast /\ mlast'.kind = "limited" /\ mlast'.sid = a

\* C13: rate limiting is per session: the counter and timestamp of a session change
\* only at that session's own requests, and whether its request is rejected is
\* decided by its own counter, its own timestamp and the clock alone
C13_RateLimitPerSession ==
  [][\A a \in MonoIds :
       /\ (Has(transports, a) /\ Has(transports', a) /\ transports'[a] # transports[a])
            => (mlast'.kind = "limited" /\ mlast'.sid = a)
       /\ LimiterDecides(a)
            => (mlast'.status = "429"
                  <=> /\ mnow - transports[a].lastRequest <= WindowTicks
                      /\ transports[a].requestCount >= RATE_LIMIT)]_vars

\* a request of one session is forwarded while another session is at its ceiling
C13_Witness ==
  /\ mlast.status = "forwarded"
  /\ \E b \in MonoIds \ {mlast.sid} :
       /\ Has(transports, b)
       /\ transports[b].requestCount >= RATE_LIMIT
       /\ mnow - transports[b].lastRequest <= WindowTicks

\* C14: the limiter's decisions equal those of the fixed-window reference, which
\* opens a window {1, now} at a session's first request, reopens it when
\* now - windowStartedAt exceeds the window length, and otherwise counts the request
\* and allows it only while the count stays within the ceiling
C14_FixedWindowRefinement ==
  mlast.kind = "limited" =>
    (mlast.status = "forwarded" <=> mlast.allowedBefore < RATE_LIMIT)

\* the largest number of allowed requests of session a within a closed interval of
\* one window length
MaxBurst(a) ==
  LET times == win[a].at
      count(t) == Cardinality({i \in 1..Len(times) : t <= times[i] /\ times[i] <= t + WindowTicks})
      counts == {count(t) : t \in 0..MaxTime}
  IN  CHOOSE c \in counts : \A d \in counts : d <= c

\* C15: within any interval of one window length at most 2N requests of a session
\* are allowed, and a burst across a window boundary gets above N: the request that
\* arrives right after the session's window has elapsed is let through, although
\* with it N requests of the session are allowed within one window length (the
\* new window's further requests then take the burst above N)
C15_BoundaryBurst ==
  /\ \A a \in MonoIds : MaxBurst(a) <= 2 * RATE_LIMIT
  /\ (mlast.kind = "limited" /\ mlast.elapsed /\ mlast.recent >= RATE_LIMIT - 1)
       => mlast.status = "forwarded"

\* what the code does hold to: never more than N within one window length
AtMostCeilingPerWindow == \A a \in MonoIds : MaxBurst(a) <= RATE_LIMIT

(***************************************************************************)
(* Monolithic server: its SimpleEventStore (server-http.mts 661-698)       *)
(***************************************************************************)
MonoStreamIds == {"p", "q"}

\* the empty stream id ''
NoStream == ""

\* an event id the store never produced
MonoForeignIds == { <<0, 0>> }

NoMonoReplay == [called |-> FALSE, arg |-> <<>>, sent |-> <<>>, ret |-> NoStream]

\* `${Date.now()}-${randomUUID()}`: the n-th UUID differs from all earlier ones
MonoEventId(ms, n) == <<ms, n>>

\* position of streamId among the Map's keys, 0 when it is no key
RECURSIVE MonoKeyIndexFrom(_, _)
MonoKeyIndexFrom(streamId, i) ==
  IF i > Len(mstore) THEN 0
  ELSE IF mstore[i].stream = streamId THEN i
  ELSE MonoKeyIndexFrom(streamId, i + 1)

MonoKeyIndex(streamId) == MonoKeyIndexFrom(streamId, 1)

MonoStoreEvent(streamId) ==
  /\ muuid < MaxMonoAppends
  /\ LET entry == [eventId |-> MonoEventId(mnow, muuid + 1), message |-> muuid + 1]
         at    == MonoKeyIndex(streamId)
     IN  mstore' = IF at = 0
                   THEN Append(mstore, [stream |-> streamId, events |-> <<entry>>])
                   ELSE [mstore EXCEPT ![at].events = Append(@, entry)]
  /\ muuid' = muuid + 1
  /\ mreplay' = NoMonoReplay
  /\ UNCHANGED <<mnow, transports, mlog, mreq, mminted, mlast, win,
                 authVars, sessVars, storeVars, httpVars>>

MonoDeleteSession(streamId) ==
  /\ mstore' = SelectSeq(mstore, LAMBDA e : e.stream # streamId)
  /\ mreplay' = NoMonoReplay
  /\ UNCHANGED <<muuid, mnow, transports, mlog, mreq, mminted, mlast, win,
                 authVars, sessVars, storeVars, httpVars>>

\* the loop over this.events.entries(), then the fallback to the first key
RECURSIVE MonoReplayScan(_, _)
MonoReplayScan(lastEventId, i) ==
  IF i > Len(mstore)
  THEN [sent |-> <<>>, ret |-> IF Len(mstore) > 0 THEN mstore[1].stream ELSE NoStream]
  ELSE LET streamEvents == mstore[i].events
           index == FindIndex(streamEvents, lastEventId)
       IN  IF index >= 1
           THEN [sent |-> MessageSeq(SubSeq(streamEvents, index + 1, Len(streamEvents))),
                 ret |-> mstore[i].stream]
           ELSE MonoReplayScan(lastEventId, i + 1)

MonoReplayResult(lastEventId) == MonoReplayScan(lastEventId, 1)

MonoReplayInputs ==
  {<<>>} \cup MonoForeignIds
         \cup UNION { { mstore[i].events[j].eventId : j \in 1..Len(mstore[i].events) } :
                      i \in 1..Len(mstore) }

MonoReplayEventsAfter(lastEventId) ==
  /\ LET r == MonoReplayResult(lastEventId)
     IN  mreplay' = [called |-> TRUE, arg |-> lastEventId, sent |-> r.sent, ret |-> r.ret]
  /\ UNCHANGED <<mstore, muuid, mnow, transports, mlog, mreq, mminted, mlast, win,
                 authVars, sessVars, storeVars, httpVars>>

MonoStoreNext ==
  \/ \E s \in MonoStreamIds : MonoStoreEvent(s)
  \/ \E s \in MonoStreamIds : MonoDeleteSession(s)
  \/ \E id \in MonoReplayInputs : MonoReplayEventsAfter(id)
  \/ MonoTick

\* no stream of the monolithic store holds an event with this id
MonoUnmatched(lastEventId) ==
  \A i \in 1..Len(mstore) : FindIndex(mstore[i].events, lastEventId) = 0

\* C12: replayEventsAfter with an empty id, or with an id that matches no stream
\* in the store, never invokes send and returns the empty stream id, not the id
\* of some existing stream
C12_UnmatchedIdReturnsNoStream ==
  (mreplay.called /\ (mreplay.arg = <<>> \/ MonoUnmatched(mreplay.arg)))
    => (mreplay.sent = <<>> /\ mreplay.ret = NoStream)

MonoInit ==
  /\ mnow = 0
  /\ transports = << >>
  /\ mlog = [s \in MonoIds |-> 0]
  /\ mreq = [r \in Slots |-> IdleReq]
  /\ mminted = 0
  /\ mlast = NoLast
  /\ win = [s \in MonoIds |-> NoWindow]
  /\ mstore = <<>>
  /\ muuid = 0
  /\ mreplay = NoMonoReplay

MonoIdle == MonoInit

MonoNext ==
  \/ \E r \in Slots, sid \in QuerySessionIds, h \in MonoHeaders : MonoArrive(r, sid, h)
  \/ \E r \in Slots : MonoConnected(r)
  \/ \E r \in Slots : MonoConnectFailed(r)
  \/ \E r \in Slots : MonoTransportStores(r)
  \/ \E r \in Slots : MonoHandled(r)
  \/ MonoTick

(***************************************************************************)
(* One SimpleEventStore per session: entry.eventStore (routes.mts 63-83)   *)
(***************************************************************************)
Sessions == {"A", "B"}

\* the standalone GET stream has the same id in every session, and the store
\* accepts any stream id
SessionStreamIds == { <<"a">>, <<"_", "g">> }

\* the random suffix of the ids: the same in both sessions, so that ids of different
\* sessions coincide when their stream id and millisecond do
SessionRandomTokens == { <<"x">> }

NoAct == [op |-> "none", session |-> "", arg |-> <<>>, sent |-> <<>>, ret |-> <<>>]

\* one event store that every session's entry refers to
NewEventStoreShared(session) == "A"

\* const eventStore = new SimpleEventStore(): a store of its own for the session
NewEventStore(session) == session

\* handleMcpPost initialises a session: a new event store, handed to the transport
\* and kept in the registry entry
SessionInitialized(session) ==
  /\ session \notin DOMAIN entryStore
  /\ LET eventStore == NewEventStore(session)
     IN  /\ entryStore' = SetEntry(entryStore, session, eventStore)
         /\ stores' = IF Has(stores, eventStore) THEN stores
                      ELSE SetEntry(stores, eventStore, << >>)
  /\ act' = [NoAct EXCEPT !.op = "init", !.session = session]
  /\ UNCHANGED <<owned, storeVars, authVars, monoVars, httpVars>>

\* the transport of a session stores an outbound message in the session's store
SessionStoresEvent(session, streamId, rnd) ==
  /\ session \in DOMAIN entryStore
  /\ Len(owned) < MaxOwned
  /\ LET message == Len(owned) + 1
         eventId == generateEventId(streamId, clock, rnd)
     IN  /\ stores' = [stores EXCEPT ![entryStore[session]] =
                         storeEvent(@, streamId, eventId, message)]
         /\ owned' = Append(owned, [session |-> session, stream |-> streamId,
                                    eventId |-> eventId, message |-> message])
         /\ act' = [NoAct EXCEPT !.op = "store", !.session = session]
  /\ UNCHANGED <<entryStore, storeVars, authVars, monoVars, httpVars>>

\* ids a client can present: none, or any id issued in any session
PresentableIds == {<<>>} \cup { owned[k].eventId : k \in 1..Len(owned) }

\* handleMcpGet with a Last-Event-ID: the session's transport replays from the
\* session's store
SessionReplays(session, lastEventId) ==
  /\ session \in DOMAIN entryStore
  /\ LET r == replayEventsAfter(stores[entryStore[session]], lastEventId)
     IN  act' = [op |-> "replay", session |-> session, arg |-> lastEventId,
                 sent |-> r.sent, ret |-> r.ret]
  /\ UNCHANGED <<entryStore, stores, owned, storeVars, authVars, monoVars, httpVars>>

\* handleMcpDelete or the sweeper: entry.eventStore.deleteSession(key)
SessionDeletes(session, key) ==
  /\ session \in DOMAIN entryStore
  /\ stores' = [stores EXCEPT ![entryStore[session]] = deleteSession(@, key)]
  /\ act' = [NoAct EXCEPT !.op = "delete", !.session = session]
  /\ UNCHANGED <<entryStore, owned, storeVars, authVars, monoVars, httpVars>>

\* Date.now() advances
SessionTick ==
  /\ clock < MaxClock
  /\ clock' = clock + 1
  /\ act' = NoAct
  /\ UNCHANGED <<entryStore, stores, owned, events, issued, deleted, replay,
                 authVars, monoVars, httpVars>>

SessInit ==
  /\ entryStore = << >>
  /\ stores = << >>
  /\ owned = <<>>
  /\ act = NoAct

SessIdle == SessInit

SessNext ==
  \/ \E a \in Sessions : SessionInitialized(a)
  \/ \E a \in Sessions, s \in SessionStreamIds, rnd \in SessionRandomTokens :
       SessionStoresEvent(a, s, rnd)
  \/ \E a \in Sessions, id \in PresentableIds : SessionReplays(a, id)
  \/ \E a \in Sessions, s \in SessionStreamIds : SessionDeletes(a, s)
  \/ SessionTick

\* the events the store of a session holds
LogOf(session) == stores[entryStore[session]]

\* the messages a session's transport stored
OwnedBy(session) ==
  { owned[k].message : k \in {j \in 1..Len(owned) : owned[j].session = session} }

\* ids issued in a session
IssuedIn(session) ==
  { owned[k].eventId : k \in {j \in 1..Len(owned) : owned[j].session = session} }

\* C30: event logs are isolated between sessions: a GET on one session, whatever
\* event id it presents (also one issued on a stream of another session), receives
\* only events of its own session, and an append, replay or deletion on one
\* session's log leaves every other session's log unchanged
C30_LogsIsolated ==
  /\ [](act.op = "replay" => SeqRange(act.sent) \subseteq OwnedBy(act.session))
  /\ [][\A b \in DOMAIN entryStore :
          LogOf(b)' # LogOf(b) => (act'.session = b /\ act'.op \in {"store", "delete"})]_vars

\* a GET on session A presented an id issued in session B while B's log holds
\* events, and was handed events of A
C30_Witness ==
  /\ act.op = "replay" /\ act.session = "A"
  /\ act.arg \in IssuedIn("B")
  /\ act.sent # <<>>
  /\ Has(entryStore, "B") /\ LogOf("B") # << >>

(***************************************************************************)
(* Modular server: handleMcpPost / handleMcpGet / handleMcpDelete and the  *)
(* SessionManager                                                          *)
(***************************************************************************)
SESSION_TIMEOUT == TimeoutTicks

\* session ids in the order the transports' sessionIdGenerator produced them;
\* an id not produced yet stands for an id the server does not know
SessIds == 1..MaxSess

Verbs == {"POST", "GET", "DELETE"}

ReqSlots == 1..MaxReqs

IdleHttp == [pc |-> "idle", verb |-> "POST", sid |-> NoId, resp |-> "none"]

NoArrival == [verb |-> "none", sid |-> NoId, isInit |-> FALSE, status |-> "none"]

\* idle records, for the entry the sweeper is about to remove, whether its idle time
\* exceeded the timeout when the sweeper tested it
IdleSweep == [pc |-> "idle", at |-> 0, visited |-> {}, cur |-> NoId, idle |-> FALSE]

RemoveEntry(map, sid) == [s \in DOMAIN map \ {sid} |-> map[s]]

\* SessionManager.get(sessionId) finds an entry
Resolves(sessionId) == sessionId # NoId /\ Has(registry, sessionId)

\* a touch that falls back to the creation time
TouchStale(sessionId) ==
  IF Has(registry, sessionId)
  THEN [registry EXCEPT ![sessionId].lastActivity = registry[sessionId].created]
  ELSE registry

\* SessionManager.touch(sessionId): lastActivity becomes the current time
Touch(sessionId) ==
  IF Has(registry, sessionId)
  THEN [registry EXCEPT ![sessionId].lastActivity = now]
  ELSE registry

\* an onsessioninitialized that forgets sessionManager.set
RegisterSessionLost(newSessionId) == registry

\* onsessioninitialized(newSessionId): sessionManager.set(newSessionId, {...})
RegisterSession(newSessionId) ==
  SetEntry(registry, newSessionId, [created |-> now, lastActivity |-> now])

\* a router that starts a session for any POST without a session id
RouteNoInitCheck(verb, sessionId, isInit) ==
  IF verb = "POST"
  THEN IF Resolves(sessionId) THEN "forward"
       ELSE IF sessionId = NoId THEN "initialize"
       ELSE "reject"
  ELSE IF ~Resolves(sessionId) THEN "reject"
  ELSE IF verb = "GET" THEN "forward"
  ELSE "delete"

\* a router that starts a session for every initialization payload whose session id
\* does not resolve, also when the request bears a session id
RouteInitAnyId(verb, sessionId, isInit) ==
  IF verb = "POST"
  THEN IF Resolves(sessionId) THEN "forward"
       ELSE IF isInit THEN "initialize"
       ELSE "reject"
  ELSE IF ~Resolves(sessionId) THEN "reject"
  ELSE IF verb = "GET" THEN "forward"
  ELSE "delete"

\* which branch the handler of the request's verb takes
Route(verb, sessionId, isInit) ==
  IF verb = "POST"
  THEN IF Resolves(sessionId) THEN "forward"
       ELSE IF sessionId = NoId /\ isInit THEN "initialize"
       ELSE "reject"
  ELSE IF ~Resolves(sessionId) THEN "reject"
  ELSE IF verb = "GET" THEN "forward"
  ELSE "delete"

NoneDone == [resp |-> "none", failed |-> FALSE]

\* a handleTransportError that does not look at res.headersSent
handleTransportErrorUnchecked(sent) == IF sent = "none" THEN "500" ELSE "double"

\* handleTransportError: res.status(500).json(...) only if (!res.headersSent);
\* sent is what the response carries so far, the result what it carries afterwards
handleTransportError(sent) == IF sent = "none" THEN "500" ELSE sent

\* sendInternalError: likewise guarded by res.headersSent
sendInternalError(sent) == IF sent = "none" THEN "500" ELSE sent

\* a sendInvalidRequestError that reports the unknown session as a server failure
sendInvalidRequestErrorAsFailure(sent) == IF sent = "none" THEN "500" ELSE "double"

\* sendInvalidRequestError: res.status(400).json(...) without looking at headersSent
sendInvalidRequestError(sent) == IF sent = "none" THEN "400" ELSE "double"

\* a sweeper test with its operands swapped
ExpiredSwapped(entry, at) == entry.created - at > SESSION_TIMEOUT

\* cleanupExpired's test: now - entry.created > SESSION_TIMEOUT
Expired(entry, at) == at - entry.created > SESSION_TIMEOUT

Alive == shut # "exited"

PendingInits == Cardinality({r \in ReqSlots : reqs[r].pc \in {"connect", "init"}})

\* a request reaches its handler, which runs up to its first await
HttpArrive(r, verb, sessionId, isInit) ==
  /\ shut \in {"running", "closing"}
  /\ reqs[r].pc = "idle"
  /\ \A q \in ReqSlots : q < r => reqs[q].pc # "idle"
  /\ LET branch == Route(verb, sessionId, isInit)
         seen   == [verb |-> verb, sid |-> sessionId, isInit |-> isInit, status |-> "none"]
     IN  CASE branch = "forward" ->
                /\ registry' = Touch(sessionId)
                /\ reqs' = [reqs EXCEPT ![r] = [pc |-> "fwd", verb |-> verb,
                                                sid |-> sessionId, resp |-> "none"]]
                /\ last' = [seen EXCEPT !.status = "forwarded"]
                /\ done' = NoneDone
                /\ UNCHANGED elog
           [] branch = "initialize" ->
                /\ minted + PendingInits < MaxSess
                /\ reqs' = [reqs EXCEPT ![r] = [pc |-> "connect", verb |-> verb,
                                                sid |-> NoId, resp |-> "none"]]
                /\ last' = [seen EXCEPT !.status = "initializing"]
                /\ done' = NoneDone
                /\ UNCHANGED <<registry, elog>>
           [] branch = "delete" ->
                \* eventStore.deleteSession(sessionId) runs up to the await
                /\ elog' = [elog EXCEPT ![sessionId] = 0]
                /\ reqs' = [reqs EXCEPT ![r] = [pc |-> "del1", verb |-> verb,
                                                sid |-> sessionId, resp |-> "none"]]
                /\ last' = [seen EXCEPT !.status = "deleting"]
                /\ done' = NoneDone
                /\ UNCHANGED registry
           [] OTHER ->
                \* sendInvalidRequestError
                /\ last' = [seen EXCEPT !.status = "400"]
                /\ done' = [resp |-> sendInvalidRequestError("none"), failed |-> FALSE]
                /\ UNCHANGED <<registry, elog, reqs>>
  /\ UNCHANGED <<halt, now, topen, minted, sweep, shut, terminated, swept,
                 storeVars, authVars, sessVars, monoVars>>

\* await server.connect(transport) returns; transport.handleRequest is called
HttpConnected(r) ==
  /\ Alive
  /\ reqs[r].pc = "connect"
  /\ reqs' = [reqs EXCEPT ![r].pc = "init"]
  /\ UNCHANGED <<halt, now, registry, topen, elog, minted, sweep, shut, last, terminated,
                 swept, storeVars, authVars, sessVars, monoVars, done>>

\* await server.connect(transport) throws; sendInternalError answers 500
HttpConnectFailed(r) ==
  /\ Alive
  /\ reqs[r].pc = "connect"
  /\ reqs' = [reqs EXCEPT ![r] = IdleHttp]
  /\ done' = [resp |-> sendInternalError(reqs[r].resp), failed |-> FALSE]
  /\ last' = NoArrival
  /\ UNCHANGED <<halt, now, registry, topen, elog, minted, sweep, shut, terminated,
                 swept, storeVars, authVars, sessVars, monoVars>>

\* the transport accepts the initialization: it takes an id from sessionIdGenerator,
\* calls onsessioninitialized and starts the response that carries the id
TransportInitialize(r) ==
  /\ Alive
  /\ reqs[r].pc = "init"
  /\ LET newSessionId == minted + 1
     IN  /\ registry' = RegisterSession(newSessionId)
         /\ topen' = [topen EXCEPT ![newSessionId] = "open"]
         /\ reqs' = [reqs EXCEPT ![r] = [pc |-> "stream", verb |-> "POST",
                                         sid |-> newSessionId, resp |-> "200"]]
  /\ minted' = minted + 1
  /\ UNCHANGED <<halt, now, elog, sweep, shut, last, terminated, swept,
                 storeVars, authVars, sessVars, monoVars, done>>

\* the transport refuses the initialization: it answers the error itself, or it
\* throws and handleTransportError answers; no session comes to exist
TransportRefusesInit(r, threw) ==
  /\ Alive
  /\ reqs[r].pc = "init"
  /\ reqs' = [reqs EXCEPT ![r] = IdleHttp]
  /\ done' = IF threw
             THEN [resp |-> handleTransportError(reqs[r].resp), failed |-> TRUE]
             ELSE [resp |-> "400", failed |-> FALSE]
  /\ last' = NoArrival
  /\ UNCHANGED <<halt, now, registry, topen, elog, minted, sweep, shut, terminated,
                 swept, storeVars, authVars, sessVars, monoVars>>

\* the open transport of a request in flight stores an outbound message:
\* eventStore.storeEvent creates the buffer when it is absent
TransportStoresEvent(r) ==
  /\ Alive
  /\ reqs[r].pc \in {"fwd", "stream"}
  /\ topen[reqs[r].sid] = "open"
  /\ elog[reqs[r].sid] < MaxHeld
  /\ elog' = [elog EXCEPT ![reqs[r].sid] = @ + 1]
  /\ UNCHANGED <<halt, now, registry, topen, reqs, minted, sweep, shut, last, terminated,
                 swept, storeVars, authVars, sessVars, monoVars, done>>

\* await transport.handleRequest(...) returns: the transport has answered
TransportReturns(r) ==
  /\ Alive
  /\ reqs[r].pc \in {"fwd", "stream"}
  /\ reqs' = [reqs EXCEPT ![r] = IdleHttp]
  /\ done' = [resp |-> "200", failed |-> FALSE]
  /\ last' = NoArrival
  /\ UNCHANGED <<halt, now, registry, topen, elog, minted, sweep, shut, terminated,
                 swept, storeVars, authVars, sessVars, monoVars>>

\* await transport.handleRequest(...) throws, before the transport started the
\* response or (wrote) after it did; the catch calls handleTransportError
TransportThrows(r, wrote) ==
  /\ Alive
  /\ reqs[r].pc \in {"fwd", "stream"}
  /\ LET sent == IF wrote THEN "200" ELSE reqs[r].resp
     IN  done' = [resp |-> handleTransportError(sent), failed |-> TRUE]
  /\ reqs' = [reqs EXCEPT ![r] = IdleHttp]
  /\ last' = NoArrival
  /\ UNCHANGED <<halt, now, registry, topen, elog, minted, sweep, shut, terminated,
                 swept, storeVars, authVars, sessVars, monoVars>>

\* handleMcpDelete resumes after await eventStore.deleteSession and calls
\* transport.handleRequest
HttpDeleteForward(r) ==
  /\ Alive
  /\ reqs[r].pc = "del1"
  /\ reqs' = [reqs EXCEPT ![r].pc = "del2"]
  /\ UNCHANGED <<halt, now, registry, topen, elog, minted, sweep, shut, last, terminated,
                 swept, storeVars, authVars, sessVars, monoVars, done>>

\* transport.handleRequest settles for the DELETE: either the transport answered and
\* closed itself, or it threw (after starting the response if wrote) and the catch
\* called handleTransportError; then sessionManager.delete(sessionId)
HttpDeleteFinish(r, closed, wrote) ==
  /\ Alive
  /\ reqs[r].pc = "del2"
  /\ closed => wrote
  /\ topen' = IF closed THEN [topen EXCEPT ![reqs[r].sid] = "closed"] ELSE topen
  /\ LET sent == IF wrote THEN "200" ELSE reqs[r].resp
     IN  done' = IF closed THEN [resp |-> sent, failed |-> FALSE]
                 ELSE [resp |-> handleTransportError(sent), failed |-> TRUE]
  /\ registry' = RemoveEntry(registry, reqs[r].sid)
  /\ terminated' = terminated \cup {reqs[r].sid}
  /\ reqs' = [reqs EXCEPT ![r] = IdleHttp]
  /\ last' = NoArrival
  /\ UNCHANGED <<halt, now, elog, minted, sweep, shut, swept,
                 storeVars, authVars, sessVars, monoVars>>

\* the cleanup interval fires: cleanupExpired reads the clock and starts iterating
SweepStart ==
  /\ Alive
  /\ sweep.pc = "idle"
  /\ sweep' = [pc |-> "loop", at |-> now, visited |-> {}, cur |-> NoId, idle |-> FALSE]
  /\ UNCHANGED <<halt, now, registry, topen, elog, reqs, minted, shut, last, terminated,
                 swept, storeVars, authVars, sessVars, monoVars, done>>

\* one iteration of the loop, up to the await of deleteSession for an expired entry
SweepVisit(sessionId) ==
  /\ Alive
  /\ sweep.pc = "loop"
  /\ sessionId \in DOMAIN registry \ sweep.visited
  /\ IF Expired(registry[sessionId], sweep.at)
     THEN /\ elog' = [elog EXCEPT ![sessionId] = 0]
          /\ sweep' = [sweep EXCEPT !.pc = "await", !.cur = sessionId,
                                    !.idle = sweep.at - registry[sessionId].lastActivity
                                               > SESSION_TIMEOUT]
     ELSE /\ sweep' = [sweep EXCEPT !.visited = @ \cup {sessionId}]
          /\ UNCHANGED elog
  /\ UNCHANGED <<halt, now, registry, topen, reqs, minted, shut, last, terminated, swept,
                 storeVars, authVars, sessVars, monoVars, done>>

\* after the await: entry.transport.close(); this.transports.delete(sessionId)
SweepRemove ==
  /\ Alive
  /\ sweep.pc = "await"
  /\ topen' = [topen EXCEPT ![sweep.cur] = "closed"]
  /\ registry' = RemoveEntry(registry, sweep.cur)
  /\ swept' = IF Has(registry, sweep.cur) THEN swept \cup {sweep.cur} ELSE swept
  /\ sweep' = [sweep EXCEPT !.pc = "loop", !.visited = @ \cup {sweep.cur}, !.cur = NoId,
                            !.idle = FALSE]
  /\ UNCHANGED <<halt, now, elog, reqs, minted, shut, last, terminated,
                 storeVars, authVars, sessVars, monoVars, done>>

\* the iterator is exhausted
SweepEnd ==
  /\ Alive
  /\ sweep.pc = "loop"
  /\ DOMAIN registry \ sweep.visited = {}
  /\ sweep' = IdleSweep
  /\ UNCHANGED <<halt, now, registry, topen, elog, reqs, minted, shut, last, terminated,
                 swept, storeVars, authVars, sessVars, monoVars, done>>

NoHalt == [signal |-> -1, armed |-> -1, exit |-> -1]

\* SIGINT: closeAll deletes every entry's event log and closes its transport, then
\* awaits the join of the deletions raced against the grace timer
ShutdownSignal ==
  /\ shut = "running"
  /\ elog' = [s \in SessIds |-> IF Has(registry, s) THEN 0 ELSE elog[s]]
  /\ topen' = [s \in SessIds |-> IF Has(registry, s) THEN "closed" ELSE topen[s]]
  /\ shut' = "closing"
  /\ halt' = [halt EXCEPT !.signal = now]
  /\ UNCHANGED <<now, registry, reqs, minted, sweep, last, terminated, swept,
                 storeVars, authVars, sessVars, monoVars, done>>

\* the join or the grace timer settles the race: this.transports.clear();
\* httpServer.close(...) stops accepting; the hard-kill timer is armed
ShutdownClear ==
  /\ shut = "closing"
  /\ registry' = << >>
  /\ shut' = "closed"
  /\ halt' = [halt EXCEPT !.armed = now]
  /\ UNCHANGED <<now, topen, elog, reqs, minted, sweep, last, terminated, swept,
                 storeVars, authVars, sessVars, monoVars, done>>

\* process.exit, from the callback of httpServer.close or from the hard-kill timer:
\* the process and everything it held are gone
ShutdownExit ==
  /\ shut = "closed"
  /\ shut' = "exited"
  /\ halt' = [halt EXCEPT !.exit = now]
  /\ registry' = << >>
  /\ reqs' = [r \in ReqSlots |-> IdleHttp]
  /\ sweep' = IdleSweep
  /\ UNCHANGED <<now, topen, elog, minted, last, terminated,
                 swept, storeVars, authVars, sessVars, monoVars, done>>

\* time passes, but not beyond the moment a pending timer is due: the grace timer
\* settles the join, the hard-kill timer exits
HttpTick ==
  /\ Alive
  /\ now < MaxNow
  /\ shut = "closing" => now - halt.signal < GraceTicks
  /\ shut = "closed" => now - halt.armed < HardKillTicks
  /\ now' = now + 1
  /\ UNCHANGED <<registry, topen, elog, reqs, minted, sweep, shut, last, terminated,
                 swept, storeVars, authVars, sessVars, monoVars, done, halt>>

HttpInit ==
  /\ now = 0
  /\ registry = << >>
  /\ topen = [s \in SessIds |-> "none"]
  /\ elog = [s \in SessIds |-> 0]
  /\ reqs = [r \in ReqSlots |-> IdleHttp]
  /\ minted = 0
  /\ sweep = IdleSweep
  /\ shut = "running"
  /\ last = NoArrival
  /\ terminated = {}
  /\ swept = {}
  /\ done = NoneDone
  /\ halt = NoHalt

HttpIdle == HttpInit

Next ==
  \/ \E r \in ReqSlots, verb \in Verbs, sid \in {NoId} \cup SessIds, isInit \in BOOLEAN :
       HttpArrive(r, verb, sid, isInit)
  \/ \E r \in ReqSlots : HttpConnected(r)
  \/ \E r \in ReqSlots : HttpConnectFailed(r)
  \/ \E r \in ReqSlots : TransportInitialize(r)
  \/ \E r \in ReqSlots, threw \in BOOLEAN : TransportRefusesInit(r, threw)
  \/ \E r \in ReqSlots : TransportStoresEvent(r)
  \/ \E r \in ReqSlots : TransportReturns(r)
  \/ \E r \in ReqSlots, wrote \in BOOLEAN : TransportThrows(r, wrote)
  \/ \E r \in ReqSlots : HttpDeleteForward(r)
  \/ \E r \in ReqSlots, closed \in BOOLEAN, wrote \in BOOLEAN :
       HttpDeleteFinish(r, closed, wrote)
  \/ SweepStart
  \/ \E s \in SessIds : SweepVisit(s)
  \/ SweepRemove
  \/ SweepEnd
  \/ ShutdownSignal
  \/ ShutdownClear
  \/ ShutdownExit
  \/ HttpTick

(***************************************************************************)
(* Specifications                                                          *)
(***************************************************************************)
InitStore == StoreInit /\ SessIdle /\ AuthIdle /\ MonoIdle /\ HttpIdle

SpecStore == InitStore /\ [][StoreNext]_vars

InitAuth == AuthInit /\ StoreIdle /\ SessIdle /\ MonoIdle /\ HttpIdle

SpecAuth == InitAuth /\ [][ApiKeyMiddleware]_vars

InitSessions == SessInit /\ StoreIdle /\ AuthIdle /\ MonoIdle /\ HttpIdle

SpecSessions == InitSessions /\ [][SessNext]_vars

InitMono ==
  /\ MonoInit /\ StoreIdle /\ SessIdle /\ HttpIdle
  /\ apiKey = MonoApiKey /\ reqPath = "/mcp" /\ hasAuth = FALSE /\ authHeader = <<>>
  /\ gate = "pending"

SpecMono == InitMono /\ [][MonoNext]_vars

SpecMonoStore == InitMono /\ [][MonoStoreNext]_vars

Init == HttpInit /\ StoreIdle /\ SessIdle /\ AuthIdle /\ MonoIdle

Spec == Init /\ [][Next]_vars

\* the cleanup interval keeps firing and a started cleanupExpired runs on
SweeperFairness ==
  /\ WF_vars(SweepStart)
  /\ WF_vars(\E s \in SessIds : SweepVisit(s))
  /\ WF_vars(SweepRemove)
  /\ WF_vars(SweepEnd)

SpecLive == Init /\ [][Next]_vars /\ SweeperFairness

(***************************************************************************)
(* Properties of the modular server                                        *)
(***************************************************************************)
\* a request reached its handler in this step
Arrived ==
  /\ last'.verb # "none"
  /\ \/ last' # last
     \/ \E r \in ReqSlots : reqs[r].pc = "idle" /\ reqs'[r].pc # "idle"

\* C4: a POST that is not an initialization, or a GET or DELETE, whose session id
\* is missing or absent from the registry is answered 400; it creates no session,
\* is forwarded to no transport and leaves the registry unchanged
C4_UnknownSessionRejected ==
  [][(/\ Arrived
      /\ ~(last'.verb = "POST" /\ last'.isInit)
      /\ (last'.sid = NoId \/ ~Has(registry, last'.sid)))
     => /\ last'.status = "400"
        /\ UNCHANGED <<registry, reqs, minted, topen, elog>>]_vars

C4_Witness ==
  /\ last.status = "400"
  /\ last.verb = "POST"
  /\ ~last.isInit
  /\ last.sid = NoId
  /\ registry # << >>

\* C5: once a DELETE on a registered session has completed, the id never resolves
\* again and the session's event log holds no events
C5_DeletedGoneAndLogEmpty ==
  \A s \in terminated : ~Resolves(s) /\ elog[s] = 0

\* the first half of C5 alone: the id never resolves again
DeletedNeverResolves == \A s \in terminated : ~Resolves(s)

IdleTooLong(s) ==
  Has(registry, s) /\ now - registry[s].lastActivity > SESSION_TIMEOUT

\* C7: a session idle for longer than the timeout is eventually out of the
\* registry, and a session the sweeper removed never resolves again
C7_IdleSessionEventuallySwept ==
  \A s \in SessIds :
    /\ IdleTooLong(s) ~> ~Resolves(s)
    /\ [](s \in swept => ~Resolves(s))

C7_Witness ==
  /\ last.status = "400"
  /\ last.sid \in swept

\* C8: the sweeper decides to remove a session only when the time since its last
\* activity exceeds the timeout
C8_SweepRemovesOnlyIdle ==
  [][\A s \in SessIds :
       (sweep.pc = "loop" /\ sweep'.pc = "await" /\ sweep'.cur = s)
         => sweep.at - registry[s].lastActivity > SESSION_TIMEOUT]_vars

\* C16: at most one response is written for a request, on every path of the three
\* handlers: no response is ever written on top of one already started
C16_SingleResponse ==
  /\ \A r \in ReqSlots : reqs[r].resp # "double"
  /\ done.resp # "double"

\* the transport failed after it had started the response; nothing was written
\* on top of it
C16_Witness == done.failed /\ done.resp = "200"

\* the handler of a request addressed to a session, with pc among pcs, finishes in
\* this step because the transport failed
FailsIn(r, pcs) ==
  /\ reqs[r].pc \in pcs
  /\ reqs'[r].pc = "idle"
  /\ done'.failed
  /\ shut' = shut

\* C17: when the transport fails while handling a POST, GET or DELETE addressed to
\* an existing session, the registry entry, the transport and the event log are
\* left as they were, and a 500 is written only if no response had been started
C17_TransportFailureKeepsSession ==
  [][\A r \in ReqSlots :
       FailsIn(r, {"fwd", "del2"})
         => /\ UNCHANGED <<registry, topen, elog>>
            /\ done'.resp = "500" => reqs[r].resp = "none"]_vars

\* the same for POST and GET alone
PostGetFailureKeepsSession ==
  [][\A r \in ReqSlots :
       FailsIn(r, {"fwd"})
         => /\ UNCHANGED <<registry, topen, elog>>
            /\ done'.resp = "500" => reqs[r].resp = "none"]_vars

ShutdownOrderAndDeadlineFromClear ==
  /\ shut \in {"closed", "exited"} =>
       (halt.signal # -1 /\ halt.signal <= halt.armed /\ now <= halt.armed + HardKillTicks)
  /\ shut = "exited" =>
       (halt.armed <= halt.exit /\ halt.exit <= halt.armed + HardKillTicks)
  /\ shut = "closing" => now <= halt.signal + GraceTicks

\* C19: the lastActivity of a session never decreases while the session is in the
\* registry, and every POST and GET addressed to a resolvable session sets it to the
\* current time
C19_LastActivityMonotone ==
  [][/\ \A s \in SessIds :
          (Has(registry, s) /\ Has(registry', s))
            => registry'[s].lastActivity >= registry[s].lastActivity
     /\ (Arrived /\ last'.verb \in {"POST", "GET"} /\ Has(registry, last'.sid))
          => (/\ Has(registry', last'.sid)
              /\ registry'[last'.sid].lastActivity = now)]_vars

\* a session was touched by two requests at different times after its creation
C19_Witness ==
  /\ last.status = "forwarded"
  /\ Has(registry, last.sid)
  /\ registry[last.sid].created = 0
  /\ registry[last.sid].lastActivity = 2

\* a session id the transports have produced
Minted(s) == s <= minted

\* C21: whenever an entry has left the registry (by the sweeper, by a DELETE or by
\* closeAll) its event log has been released and its transport has been closed: no
\* session is absent from the registry while its transport is open or its log
\* holds events
C21_RemovedIsReleased ==
  Alive =>
    \A s \in SessIds :
      (Minted(s) /\ ~Has(registry, s)) => (topen[s] # "open" /\ elog[s] = 0)

\* the part of C21 the sweeper alone keeps: the transport of a swept session is closed
SweptIsClosed == \A s \in swept : topen[s] = "closed"

InFlightSince(s) ==
  /\ last.status = "forwarded" /\ last.sid = s
  /\ \E r \in ReqSlots : reqs[r].pc = "fwd" /\ reqs[r].sid = s
  /\ Has(registry, s)

\* the sweeper closes the transport of s and removes s in this step
SweeperRemoves(s) == sweep.pc = "await" /\ sweep'.pc = "loop" /\ sweep.cur = s

\* C23: POST and GET touch the session in the step of the registry lookup, before
\* the first await; so the sweeper, interleaved at a suspension point of a request
\* that arrived less than the idle timeout ago, never removes the session that
\* request is using
C23_InFlightRequestNotSwept ==
  [][/\ (Arrived /\ last'.status = "forwarded")
          => registry'[last'.sid].lastActivity = now
     /\ \A s \in SessIds :
          (SweeperRemoves(s) /\ InFlightSince(s)
             /\ now - registry[s].lastActivity < SESSION_TIMEOUT)
            => Has(registry', s)]_vars

\* the first half of C23 alone: the touch happens in the step of the lookup
TouchedInLookupStep ==
  [][(Arrived /\ last'.status = "forwarded")
       => registry'[last'.sid].lastActivity = now]_vars

\* closeAll's loop runs in this step and visits s
CloseAllVisits(s) == shut = "running" /\ shut' = "closing" /\ Has(registry, s)

\* the transport closes itself in this step while answering a DELETE for s
DeleteCloses(s) ==
  \E r \in ReqSlots :
    /\ reqs[r].pc = "del2" /\ reqs[r].sid = s /\ reqs'[r].pc = "idle"
    /\ shut' = shut
    /\ ~done'.failed

\* transport.close() runs for s in this step
ClosesTransport(s) == SweeperRemoves(s) \/ CloseAllVisits(s) \/ DeleteCloses(s)

\* C24: under every interleaving of a DELETE, a sweeper run and closeAll on the
\* same session its teardown is performed at most once: the transport is closed at
\* most once and the entry leaves the registry at most once
C24_TeardownAtMostOnce ==
  [][\A s \in SessIds :
       /\ ClosesTransport(s) => topen[s] = "open"
       /\ (Has(registry, s) /\ ~Has(registry', s)) => s \notin (terminated \cup swept)]_vars

\* the second half of C24 alone: an entry leaves the registry at most once
RemovedAtMostOnce ==
  [][\A s \in SessIds :
       (Has(registry, s) /\ ~Has(registry', s)) => s \notin (terminated \cup swept)]_vars

\* closeAll resumes after its bounded join, clears the registry and returns
CloseAllReturns == shut = "closing" /\ shut' = "closed"

CloseAllEmptiesRegistry == [][CloseAllReturns => registry' = << >>]_vars

RemovalStillOld ==
  [][\A s \in SessIds :
       (SweeperRemoves(s) /\ Has(registry, s))
         => now - registry[s].created > SESSION_TIMEOUT]_vars

\* request r enters the initialization branch in this step
StartsInit(r) == reqs[r].pc = "idle" /\ reqs'[r].pc = "connect"

\* C28: the registry grows only through a POST that bears no session id and whose
\* payload is an initialization: a request that bears a session id (resolvable or
\* not, initialization or not) adds no entry and starts no session, and a POST with
\* a resolvable id is forwarded to the transport of exactly that id
C28_RegistryGrowsOnlyByInit ==
  [][/\ \A r \in ReqSlots :
          StartsInit(r)
            => (last'.verb = "POST" /\ last'.sid = NoId /\ last'.isInit)
     /\ \A s \in SessIds :
          (~Has(registry, s) /\ Has(registry', s))
            => \E r \in ReqSlots :
                 /\ reqs[r].pc = "init" /\ reqs[r].verb = "POST" /\ reqs[r].sid = NoId
                 /\ reqs'[r].pc = "stream" /\ reqs'[r].sid = s
     /\ (Arrived /\ last'.sid # NoId)
          => /\ DOMAIN registry' = DOMAIN registry
             /\ \A r \in ReqSlots : ~StartsInit(r)
     /\ (Arrived /\ last'.verb = "POST" /\ Has(registry, last'.sid))
          => /\ last'.status = "forwarded"
             /\ \E r \in ReqSlots :
                  /\ reqs[r].pc = "idle"
                  /\ reqs' = [reqs EXCEPT ![r] = [pc |-> "fwd", verb |-> "POST",
                                                  sid |-> last'.sid, resp |-> "none"]]]_vars

\* an initialization payload that bears the id of an existing session was forwarded
\* to that session and the registry holds that session only
C28_Witness ==
  /\ last.verb = "POST" /\ last.isInit /\ last.status = "forwarded"
  /\ DOMAIN registry = {last.sid}
  /\ \E r \in ReqSlots : reqs[r].pc = "fwd" /\ reqs[r].sid = last.sid

\* deleteSession has run for the log of s, in a DELETE or in the sweeper
LogDeleted(s) ==
  \/ \E r \in ReqSlots : reqs[r].pc \in {"del1", "del2"} /\ reqs[r].sid = s
  \/ sweep.pc = "await" /\ sweep.cur = s
  \/ s \in terminated \cup swept

\* C29: once the event log of a session has been deleted by a DELETE or by the
\* sweeper, no event is appended to it again: a message produced afterwards by a
\* request of that session still in flight does not re-create the buffer
C29_NoAppendAfterDelete ==
  [][\A s \in SessIds : elog'[s] > elog[s] => ~LogDeleted(s)]_vars

\* once the transport of a session is closed nothing is appended to its log
NoAppendAfterClose ==
  [][\A s \in SessIds : elog'[s] > elog[s] => topen[s] = "open"]_vars

====
